---- MODULE Spec2Model ----
(***************************************************************************)
(* Model of streamlit_marqo_demo.py: the Streamlit script that creates and *)
(* deletes a Marqo index, issues text queries against it and displays the  *)
(* hits in pages of ten.                                                   *)
(*                                                                         *)
(* Streamlit runs main() from top to bottom once per user interaction (a   *)
(* render pass).  st.session_state ("results", "page") and the values of   *)
(* the widgets survive from one pass to the next; a button's value is True *)
(* only in the pass that its click started.  Each action below is one      *)
(* whole pass of main() for one kind of interaction.                       *)
(***************************************************************************)
EXTENDS FiniteSets, Integers, Sequences, TLC

(***************************************************************************)
(* Constants of the program.                                               *)
(***************************************************************************)
TENSOR_SEARCH_MODE == "TENSOR"
LEXICAL_SEARCH_MODE == "LEXICAL"

\* rows per page: the window [page * 10, page * 10 + 10) of render_result_rows
PageSize == 10

\* the last page that Next can move to: page < 2
MaxPage == 2

\* limit=30 of the search call
SearchLimit == 30

\* the step of the "Index Settings" slider, which is also its least value
SliderStep == 10

PRE_FILTERING_OPTIONS == <<"faq", "blogs", "landing", "newsroom">>

(***************************************************************************)
(* Bounds of the model.                                                    *)
(***************************************************************************)
\* the longest query text typed into "Text Search"
MaxTextLen == 1

\* the slider is moved over its first MaxSliderSteps positions
MaxSliderSteps == 3

\* consecutive Next presses after a search that the model keeps counting
MaxNexts == 3

\* the longest list of labels given to create_filter_str on its own
MaxFilterLen == 3

\* the longest query text given to get_search_method on its own
MaxQueryLen == 4

\* the most entries of a _highlights mapping given to the highlight resolution
MaxEntries == 2

(***************************************************************************)
(* Values.                                                                 *)
(***************************************************************************)
\* the characters of a query text: a letter and the space that split(" ") cuts at
Chars == {"a", " "}

Texts == UNION {[1..n -> Chars] : n \in 0..MaxTextLen}

SliderValues == {SliderStep * j : j \in 1..MaxSliderSteps}

\* the buttons of the page; "none" is a pass no button started
Buttons == {"none", "create", "delete", "search", "prev", "next"}

\* st.session_state["results"] = {}
EmptyDict == [present |-> FALSE, hits |-> <<>>]

\* _highlights as the service returns it: a list (lexical search) or a
\* mapping from one field to an excerpt (tensor search)
HighlightShapes == {"list", "dict"}

Highlights(shape, i) ==
    IF shape = "list"
    THEN [type |-> "list", values |-> <<>>]
    ELSE [type |-> "dict", values |-> <<i>>]

\* a response of the search service: k hits in rank order
Response(k, shape) ==
    [present |-> TRUE,
     hits |-> [i \in 1..k |-> [id |-> i, highlights |-> Highlights(shape, i)]]]

Min(a, b) == IF a < b THEN a ELSE b

\* the lists of labels the "Pre-filtering Options" multiselect can hand over,
\* and longer ones with a label repeated
FilterLists ==
    UNION {[1..n -> {PRE_FILTERING_OPTIONS[i] : i \in 1..Len(PRE_FILTERING_OPTIONS)}] :
              n \in 0..MaxFilterLen}

\* query texts for get_search_method on its own
QueryTexts == UNION {[1..n -> Chars] : n \in 0..MaxQueryLen}

\* the raw _highlights values of a hit: a list, or a mapping with its excerpts
\* in insertion order; the mapping without entries is the default of line 142
RawHighlights ==
    {[type |-> "list", values |-> <<>>]} \cup
    {[type |-> "dict", values |-> v] : v \in UNION {[1..n -> 1..MaxEntries] : n \in 0..MaxEntries}}

\* one remote call of a pass: the operation, the error the service signalled
\* ("": none) and what it returned
Call(op, error, response) == [op |-> op, error |-> error, response |-> response]

(***************************************************************************)
(* The state.                                                              *)
(***************************************************************************)
VARIABLES
    results,      \* st.session_state["results"]
    page,         \* st.session_state["page"]
    search_text,  \* the value of the "Text Search" input
    indexExists,  \* the service holds an index named INDEX_NAME
    docs,         \* the number of documents of that index
    calls,        \* the remote calls of the last pass, in order
    msgs,         \* st.success / st.error messages of the last pass
    shown,        \* the result rows the last pass displayed, in order
    navShown,     \* the last pass rendered Prev, Next and the page number
    pageLabel,    \* the page number it rendered (0: none)
    noResults,    \* the last pass wrote "No results"
    raised,       \* the exception that ended the last pass ("": none)
    trigger,      \* the interaction that started the last pass
    prePage,      \* page when the last pass started
    nexts,        \* Next passes since the last search pass, nothing between
    fn,           \* the function last applied on its own ("none": none yet)
    arg,          \* what it was applied to
    ret           \* what it returned

vars == <<results, page, search_text, indexExists, docs, calls, msgs, shown,
          navShown, pageLabel, noResults, raised, trigger, prePage, nexts,
          fn, arg, ret>>

(***************************************************************************)
(* The functions of the script.  A function takes the state it reads as a  *)
(* record s and returns the record after it ran; the fields calls, msgs,   *)
(* shown, navShown, pageLabel, noResults and raised collect what the pass  *)
(* did and displayed.                                                      *)
(***************************************************************************)

\* str.split(" "): cut at every single space, keeping empty tokens
RECURSIVE split(_)
split(text) ==
    IF text = <<>>
    THEN << <<>> >>
    ELSE LET rest == split(Tail(text))
         IN  IF Head(text) = " "
             THEN << <<>> >> \o rest
             ELSE << <<Head(text)>> \o Head(rest) >> \o Tail(rest)

\* the word count taken over the tokens that are not empty, as split() gives
get_search_method_words(text) ==
    LET tokens == split(text)
        word_count == Cardinality({i \in 1..Len(tokens) : tokens[i] # <<>>})
    IN  IF word_count > 1 THEN TENSOR_SEARCH_MODE ELSE LEXICAL_SEARCH_MODE

get_search_method(text) ==
    LET word_count == Len(split(text))
    IN  IF word_count > 1 THEN TENSOR_SEARCH_MODE ELSE LEXICAL_SEARCH_MODE

\* reset_state that forgets to clear the results
reset_state_page_only(s) ==
    [s EXCEPT !.page = -1]

\* reset_state that forgets to reset the page
reset_state_results_only(s) ==
    [s EXCEPT !.results = EmptyDict]

reset_state(s) ==
    [s EXCEPT !.results = EmptyDict, !.page = -1]

\* load_index with add_documents after the try block instead of inside it
load_index_adds_anyway(s, number_data) ==
    IF s.indexExists
    THEN [s EXCEPT !.calls = @ \o <<Call("create_index", "IndexAlreadyExistsError",
                                         EmptyDict),
                                    Call("add_documents", "", EmptyDict)>>,
                   !.docs = @ + number_data,
                   !.msgs = @ \o <<"Index already exists.">>]
    ELSE [s EXCEPT !.calls = @ \o <<Call("create_index", "", EmptyDict),
                                    Call("add_documents", "", EmptyDict)>>,
                   !.indexExists = TRUE,
                   !.docs = number_data,
                   !.msgs = @ \o <<"Index successfully created.">>]

load_index(s, number_data) ==
    IF s.indexExists
    THEN \* mq.create_index raises IndexAlreadyExistsError, caught at line 68
         [s EXCEPT !.calls = @ \o <<Call("create_index", "IndexAlreadyExistsError",
                                         EmptyDict)>>,
                   !.msgs = @ \o <<"Index already exists.">>]
    ELSE [s EXCEPT !.calls = @ \o <<Call("create_index", "", EmptyDict),
                                    Call("add_documents", "", EmptyDict)>>,
                   !.indexExists = TRUE,
                   !.docs = number_data,
                   !.msgs = @ \o <<"Index successfully created.">>]

\* delete_index that also clears the session's results
delete_index_resets(s) ==
    IF s.indexExists
    THEN [s EXCEPT !.calls = @ \o <<Call("delete", "", EmptyDict)>>,
                   !.indexExists = FALSE,
                   !.docs = 0,
                   !.results = EmptyDict,
                   !.page = -1,
                   !.msgs = @ \o <<"Index successfully deleted.">>]
    ELSE [s EXCEPT !.calls = @ \o <<Call("delete", "IndexNotFoundError", EmptyDict)>>,
                   !.msgs = @ \o <<"Index does not exist.">>]

delete_index(s) ==
    IF s.indexExists
    THEN [s EXCEPT !.calls = @ \o <<Call("delete", "", EmptyDict)>>,
                   !.indexExists = FALSE,
                   !.docs = 0,
                   !.msgs = @ \o <<"Index successfully deleted.">>]
    ELSE \* delete raises IndexNotFoundError, caught at line 76
         [s EXCEPT !.calls = @ \o <<Call("delete", "IndexNotFoundError", EmptyDict)>>,
                   !.msgs = @ \o <<"Index does not exist.">>]

render_index_settings_ui(s, create_btn, delete_btn, number_data) ==
    LET s1 == IF create_btn THEN load_index(s, number_data) ELSE s
    IN  IF delete_btn THEN delete_index(s1) ELSE s1

\* Python's None as the resolved highlight of a row
None == [kind |-> "None", value |-> 0]

\* list(highlights.values())[0] of a mapping without entries
IndexError == [kind |-> "IndexError", value |-> 0]

\* readable_highlights of one row (lines 144-147)
readable_highlights(highlights, search_method) ==
    IF highlights.type = "list"
    THEN None
    ELSE IF search_method = TENSOR_SEARCH_MODE
         THEN IF highlights.values = <<>>
              THEN IndexError
              ELSE [kind |-> "excerpt", value |-> highlights.values[1]]
         ELSE None

\* the page test with its upper end included
in_page_inclusive(row0, pg) ==
    (row0 >= pg * PageSize) /\ (row0 <= (pg * PageSize + PageSize))

\* line 151: row number row0 (from 0) is on page pg
in_page(row0, pg) ==
    (row0 >= pg * PageSize) /\ (row0 < (pg * PageSize + PageSize))

\* the loop of render_result_rows over the first n rows: what it displayed
\* and the exception that ended it, if any
RECURSIVE render_rows(_, _, _, _)
render_rows(hits, pg, search_method, n) ==
    IF n = 0
    THEN [shown |-> <<>>, raised |-> ""]
    ELSE LET before == render_rows(hits, pg, search_method, n - 1)
             row0 == n - 1
             rh == readable_highlights(hits[n].highlights, search_method)
         IN  IF before.raised # ""
             THEN before
             ELSE IF rh = IndexError
                  THEN [before EXCEPT !.raised = "IndexError"]
                  ELSE IF in_page(row0, pg)
                       THEN [before EXCEPT !.shown = @ \o <<[row |-> row0, hit |-> hits[n],
                                                             readable_highlights |-> rh]>>]
                       ELSE before

render_result_rows(s, search_method) ==
    LET out == render_rows(s.results.hits, s.page, search_method, Len(s.results.hits))
    IN  [s EXCEPT !.shown = out.shown, !.raised = out.raised]

\* Prev that also steps back from the first page
prev_step_from_zero(s, prev_btn) ==
    IF prev_btn /\ (s.page > -1) THEN [s EXCEPT !.page = @ - 1] ELSE s

\* the Prev button of the pagination row
prev_step(s, prev_btn) ==
    IF prev_btn /\ (s.page > 0) THEN [s EXCEPT !.page = @ - 1] ELSE s

\* Next without the test for the last page
next_step_unbounded(s, next_btn) ==
    IF next_btn THEN [s EXCEPT !.page = @ + 1] ELSE s

\* Next that stops one page early
next_step_stops_early(s, next_btn) ==
    IF next_btn /\ (s.page < MaxPage - 1) THEN [s EXCEPT !.page = @ + 1] ELSE s

\* the Next button of the pagination row
next_step(s, next_btn) ==
    IF next_btn /\ (s.page < MaxPage) THEN [s EXCEPT !.page = @ + 1] ELSE s

\* the pagination row rendered whatever the page is
pagination_row_always(s, prev_btn, next_btn) ==
    LET s1 == next_step(prev_step(s, prev_btn), next_btn)
    IN  [s1 EXCEPT !.navShown = TRUE, !.pageLabel = s1.page + 1]

\* the pagination row: rendered, and its buttons read, only when page > -1
pagination_row(s, prev_btn, next_btn) ==
    IF s.page > -1
    THEN LET s1 == next_step(prev_step(s, prev_btn), next_btn)
         IN  [s1 EXCEPT !.navShown = TRUE, !.pageLabel = s1.page + 1]
    ELSE s

render_results_pagination(s, search_method, prev_btn, next_btn) ==
    LET s1 == pagination_row(s, prev_btn, next_btn)
    IN  IF s1.results # EmptyDict
        THEN IF s1.results.hits # <<>>
             THEN render_result_rows(s1, search_method)
             ELSE [s1 EXCEPT !.noResults = TRUE]
        ELSE s1

\* the separator put before every clause, the first one too
separator_always(filter_string) ==
    " OR "

\* line 188: " OR " before a clause unless it is the first
separator(filter_string) ==
    IF filter_string # "" THEN " OR " ELSE ""

\* the loop of create_filter_str: filter_string after the first n labels
RECURSIVE filter_loop(_, _)
filter_loop(filter_list, n) ==
    IF n = 0
    THEN ""
    ELSE LET filter_string == filter_loop(filter_list, n - 1)
         IN  filter_string \o separator(filter_string)
                 \o "scraped_from:(" \o filter_list[n] \o ")"

create_filter_str(filter_list) ==
    filter_loop(filter_list, Len(filter_list))

\* the install without its else branch: an empty response leaves the page
install_keeps_page(s, response) ==
    LET s1 == [s EXCEPT !.results = response]
    IN  IF s1.results.hits # <<>>
        THEN [s1 EXCEPT !.page = 0]
        ELSE s1

\* the install that shows the first page whatever the response holds
install_page_zero(s, response) ==
    [s EXCEPT !.results = response, !.page = 0]

\* lines 206-211: store the response and set the page from its hits
install(s, response) ==
    LET s1 == [s EXCEPT !.results = response]
    IN  IF s1.results.hits # <<>>
        THEN [s1 EXCEPT !.page = 0]
        ELSE [s1 EXCEPT !.page = -1]

\* render_results that searches in every pass with a text, pressed or not
render_results_unpressed(s, text, search_btn, response, prev_btn, next_btn) ==
    LET search_method == get_search_method(text)
    IN  IF text # <<>>
        THEN IF ~s.indexExists
             THEN [s EXCEPT !.calls = @ \o <<Call("search", "IndexNotFoundError",
                                                  EmptyDict)>>,
                            !.raised = "IndexNotFoundError"]
             ELSE render_results_pagination(
                      install([s EXCEPT !.calls = @ \o <<Call("search", "", response)>>],
                              response),
                      search_method, prev_btn, next_btn)
        ELSE render_results_pagination(s, search_method, prev_btn, next_btn)

\* render_results without the test for an empty text
render_results_empty_text(s, text, search_btn, response, prev_btn, next_btn) ==
    LET search_method == get_search_method(text)
    IN  IF search_btn
        THEN IF ~s.indexExists
             THEN [s EXCEPT !.calls = @ \o <<Call("search", "IndexNotFoundError",
                                                  EmptyDict)>>,
                            !.raised = "IndexNotFoundError"]
             ELSE render_results_pagination(
                      install([s EXCEPT !.calls = @ \o <<Call("search", "", response)>>],
                              response),
                      search_method, prev_btn, next_btn)
        ELSE render_results_pagination(s, search_method, prev_btn, next_btn)

\* response is what the service answers if the index exists
render_results(s, text, search_btn, response, prev_btn, next_btn) ==
    LET search_method == get_search_method(text)
    IN  IF text # <<>> /\ search_btn
        THEN IF ~s.indexExists
             THEN \* search raises IndexNotFoundError; no handler is around it,
                  \* so it ends render_results and main
                  [s EXCEPT !.calls = @ \o <<Call("search", "IndexNotFoundError",
                                                  EmptyDict)>>,
                            !.raised = "IndexNotFoundError"]
             ELSE render_results_pagination(
                      install([s EXCEPT !.calls = @ \o <<Call("search", "", response)>>],
                              response),
                      search_method, prev_btn, next_btn)
        ELSE render_results_pagination(s, search_method, prev_btn, next_btn)

\* main() for a pass that `button` started; the session state exists already
main(s, button, text, number_data, response) ==
    LET s1 == render_index_settings_ui(s, button = "create", button = "delete",
                                       number_data)
    IN  render_results(s1, text, button = "search", response,
                       button = "prev", button = "next")

(***************************************************************************)
(* A render pass.                                                          *)
(***************************************************************************)
\* the state a pass starts from: what survives the last pass, nothing displayed
Start ==
    [results |-> results, page |-> page, indexExists |-> indexExists,
     docs |-> docs, calls |-> <<>>, msgs |-> <<>>, shown |-> <<>>,
     navShown |-> FALSE, pageLabel |-> 0, noResults |-> FALSE, raised |-> ""]

Finish(s, button, text, counted) ==
    /\ results' = s.results
    /\ page' = s.page
    /\ indexExists' = s.indexExists
    /\ docs' = s.docs
    /\ calls' = s.calls
    /\ msgs' = s.msgs
    /\ shown' = s.shown
    /\ navShown' = s.navShown
    /\ pageLabel' = s.pageLabel
    /\ noResults' = s.noResults
    /\ raised' = s.raised
    /\ search_text' = text
    /\ trigger' = button
    /\ prePage' = page
    /\ nexts' = counted
    /\ UNCHANGED <<fn, arg, ret>>

Pass(button, text, number_data, response, counted) ==
    Finish(main(Start, button, text, number_data, response), button, text, counted)

\* the responses the service can give: at most limit hits, at most the documents
Responses ==
    {Response(k, shape) : k \in 0..Min(SearchLimit, docs), shape \in HighlightShapes}

Init ==
    /\ results = EmptyDict
    /\ page = -1
    /\ search_text = <<>>
    /\ indexExists \in BOOLEAN
    /\ docs \in (IF indexExists THEN SliderValues ELSE {0})
    /\ calls = <<>>
    /\ msgs = <<>>
    /\ shown = <<>>
    /\ navShown = FALSE
    /\ pageLabel = 0
    /\ noResults = FALSE
    /\ raised = ""
    /\ trigger = "none"
    /\ prePage = -1
    /\ nexts = -1
    /\ fn = "none"
    /\ arg = <<>>
    /\ ret = <<>>

\* "Create Index" pressed, the slider at number_data
CreateIndex ==
    \E number_data \in SliderValues :
        Pass("create", search_text, number_data, EmptyDict, -1)

\* "Delete Index" pressed
DeleteIndex ==
    Pass("delete", search_text, SliderStep, EmptyDict, -1)

\* "Search" pressed with the text in the input
Search ==
    \E response \in Responses :
        Pass("search", search_text, SliderStep, response,
             IF search_text # <<>> /\ indexExists THEN 0 ELSE -1)

\* "Prev" pressed
Prev ==
    Pass("prev", search_text, SliderStep, EmptyDict, -1)

\* "Next" pressed
Next_ ==
    Pass("next", search_text, SliderStep, EmptyDict,
         IF nexts >= 0 /\ nexts < MaxNexts THEN nexts + 1 ELSE -1)

\* the query text edited, or another input moved: a pass that no button started
EditText ==
    \E text \in Texts :
        Pass("none", text, SliderStep, EmptyDict, -1)

\* the "Language" radio changed: on_change=reset_state runs, then a pass
ChangeLanguage ==
    Finish(main(reset_state(Start), "none", search_text, SliderStep, EmptyDict),
           "reset", search_text, -1)

Next ==
    \/ CreateIndex
    \/ DeleteIndex
    \/ Search
    \/ Prev
    \/ Next_
    \/ EditText
    \/ ChangeLanguage

Spec == Init /\ [][Next]_vars

(***************************************************************************)
(* The pure functions applied on their own, to inputs of every shape.      *)
(***************************************************************************)
\* the session state and the display, which these applications leave alone
session == <<results, page, search_text, indexExists, docs, calls, msgs, shown,
             navShown, pageLabel, noResults, raised, trigger, prePage, nexts>>

ApplyFilterStr ==
    \E filter_list \in FilterLists :
        /\ fn' = "create_filter_str"
        /\ arg' = filter_list
        /\ ret' = create_filter_str(filter_list)
        /\ UNCHANGED session

ApplySearchMethod ==
    \E text \in QueryTexts :
        /\ fn' = "get_search_method"
        /\ arg' = text
        /\ ret' = get_search_method(text)
        /\ UNCHANGED session

ApplyHighlights ==
    \E highlights \in RawHighlights :
        \E search_method \in {TENSOR_SEARCH_MODE, LEXICAL_SEARCH_MODE} :
            /\ fn' = "readable_highlights"
            /\ arg' = [highlights |-> highlights, search_method |-> search_method]
            /\ ret' = readable_highlights(highlights, search_method)
            /\ UNCHANGED session

NextFns ==
    \/ ApplyFilterStr
    \/ ApplySearchMethod
    \/ ApplyHighlights

SpecFns == Init /\ [][NextFns]_vars

(***************************************************************************)
(* Properties.                                                             *)
(***************************************************************************)
\* the rows of the stored result set that lie on the current page, from 0
PageRows ==
    {i \in 0..(Len(results.hits) - 1) :
        page * PageSize <= i /\ i < page * PageSize + PageSize}

\* the displayed rows are the rows of the current page, in result order
ShownIsPage ==
    /\ Len(shown) = Cardinality(PageRows)
    /\ \A j \in 1..Len(shown) :
        /\ shown[j].row = page * PageSize + j - 1
        /\ shown[j].row \in PageRows
        /\ shown[j].hit = results.hits[shown[j].row + 1]

\* the operations of the remote calls of the last pass, in order
Ops == [i \in 1..Len(calls) |-> calls[i].op]

\* the last pass searched and the service answered
Searched ==
    /\ trigger = "search"
    /\ calls # <<>>
    /\ calls[1].op = "search"
    /\ calls[1].error = ""

\* C1: after a search pass in which the service returned R, the stored result
\* set is R, and page is 0 if and only if R has hits and -1 otherwise,
\* whatever page was before.
C1_InstallSetsPage ==
    Searched =>
        LET R == calls[1].response
        IN  /\ results = R
            /\ (page = 0) <=> (R.hits # <<>>)
            /\ (R.hits = <<>>) => (page = -1)

\* an empty response installed over a result set that was on its third page
C1_Witness ==
    /\ Searched
    /\ prePage = MaxPage
    /\ results.hits = <<>>
    /\ page = -1

\* C2: page is always one of -1, 0, 1, 2.
C2_PageInRange ==
    page \in {-1} \cup 0..MaxPage

\* Next pressed on the last page
C2_Witness ==
    /\ trigger = "next"
    /\ prePage = MaxPage
    /\ page = MaxPage

\* C3: in every pass the displayed rows are exactly the rows of the stored
\* result set in [page * 10, page * 10 + 10), in result order (none at -1).
C3_DisplayedIsWindow ==
    ShownIsPage

\* C4 as stated: Next adds 1 to page whenever page < 2, from -1 too, leaves
\* page at 2, and never changes the stored result set.
C4_NextFromAnyPage ==
    [][(trigger' = "next") =>
          /\ results' = results
          /\ (page < MaxPage) => (page' = page + 1)
          /\ (page = MaxPage) => (page' = page)]_vars

\* C4 amended: Next adds 1 to page whenever 0 <= page < 2, leaves page as it is
\* at 2 and at -1 (where no Next button is rendered), and never changes the
\* stored result set.
C4_NextWithinPages ==
    [][(trigger' = "next") =>
          /\ results' = results
          /\ (page >= 0 /\ page < MaxPage) => (page' = page + 1)
          /\ (page = MaxPage \/ page = -1) => (page' = page)]_vars

\* Next moved the second page to the third
C4_Witness ==
    /\ trigger = "next"
    /\ prePage = 1
    /\ page = 2
    /\ navShown

\* C5: Prev subtracts 1 from page whenever page > 0 and leaves it at 0 and at
\* -1; no Prev or Next pass takes page from 0 or more to -1; Prev never changes
\* the stored result set.
C5_PrevStopsAtZero ==
    [][/\ (trigger' = "prev") =>
            /\ results' = results
            /\ (page > 0) => (page' = page - 1)
            /\ (page <= 0) => (page' = page)
       /\ (trigger' \in {"prev", "next"} /\ page >= 0) => (page' >= 0)]_vars

\* Prev pressed on the first page of a result set
C5_Witness ==
    /\ trigger = "prev"
    /\ prePage = 0
    /\ page = 0
    /\ results.hits # <<>>

\* C6: with 25 hits installed, page is 0 and 10 rows are displayed; after two
\* Next passes page is 2 and rows 20..24 are displayed; a third Next pass
\* leaves page at 2 and the same rows displayed.
C6_Scenario25 ==
    (Len(results.hits) = 25) =>
        /\ (nexts = 0) => (page = 0 /\ Len(shown) = 10)
        /\ (nexts = 1) => (page = 1)
        /\ (nexts \in {2, 3}) =>
              /\ page = 2
              /\ [j \in 1..Len(shown) |-> shown[j].row] = [j \in 1..5 |-> 19 + j]

\* the third Next after 25 hits were installed
C6_Witness ==
    /\ Len(results.hits) = 25
    /\ nexts = 3

\* C7: after the language radio changed, results is the empty value of the
\* session start, page is -1, and nothing of a result set is displayed.
C7_ResetRestoresStart ==
    (trigger = "reset") =>
        /\ results = EmptyDict
        /\ page = -1
        /\ shown = <<>>
        /\ ~navShown
        /\ ~noResults

\* the radio changed while the third page of a result set was displayed
C7_Witness ==
    /\ trigger = "reset"
    /\ prePage = MaxPage

\* C8: when Delete Index or Search meets a missing index, the error is caught
\* and shown as a message, results and page stay as they were, and the pass
\* goes on to display the stored results.
C8_IndexNotFoundHandled ==
    [][(/\ trigger' \in {"delete", "search"}
        /\ calls' # <<>>
        /\ calls'[1].error = "IndexNotFoundError") =>
          /\ raised' = ""
          /\ msgs' # <<>>
          /\ results' = results
          /\ page' = page
          /\ ShownIsPage']_vars

\* C9: Create Index on an existing index shows "Index already exists." and
\* changes nothing: no add_documents call, the same documents, the same
\* results and page.
C9_CreateExisting ==
    [][(trigger' = "create" /\ indexExists) =>
          /\ Ops' = <<"create_index">>
          /\ calls'[1].error = "IndexAlreadyExistsError"
          /\ msgs' = <<"Index already exists.">>
          /\ raised' = ""
          /\ indexExists'
          /\ docs' = docs
          /\ results' = results
          /\ page' = page]_vars

\* Create Index refused while the second page of a result set is displayed
C9_Witness ==
    /\ trigger = "create"
    /\ calls # <<>>
    /\ calls[1].error = "IndexAlreadyExistsError"
    /\ page = 1
    /\ shown # <<>>

\* C10: a pass makes each remote call once: Search with a text makes one
\* search call; Create Index one create_index call, followed by one
\* add_documents call exactly when it succeeded; Delete Index one delete call;
\* Prev, Next and a text edit none.
C10_CallsOncePerAction ==
    /\ (trigger = "search" /\ search_text # <<>>) => (Ops = <<"search">>)
    /\ (trigger = "create") =>
          \/ calls[1].error = "" /\ Ops = <<"create_index", "add_documents">>
          \/ calls[1].error # "" /\ Ops = <<"create_index">>
    /\ (trigger = "delete") => (Ops = <<"delete">>)
    /\ (trigger \in {"prev", "next", "none"}) => (calls = <<>>)

\* Create Index succeeded and the documents were added
C10_Witness ==
    /\ trigger = "create"
    /\ Len(calls) = 2
    /\ calls[1].error = ""

\* one clause of the filter string
Clause(label) == "scraped_from:(" \o label \o ")"

\* the clauses of the labels in order, " OR " between neighbours only
RECURSIVE Joined(_)
Joined(labels) ==
    IF labels = <<>>
    THEN ""
    ELSE IF Len(labels) = 1
         THEN Clause(labels[1])
         ELSE Clause(labels[1]) \o " OR " \o Joined(Tail(labels))

\* C11: create_filter_str(L) is the clauses scraped_from:(label) of the labels
\* of L in order, joined by " OR ", nothing before the first or after the
\* last; "" for [], and the two examples of the specification.
C11_FilterStrJoins ==
    (fn = "create_filter_str") =>
        /\ ret = Joined(arg)
        /\ (arg = <<>>) => (ret = "")
        /\ (arg = <<"faq">>) => (ret = "scraped_from:(faq)")
        /\ (arg = <<"faq", "blogs">>) =>
              (ret = "scraped_from:(faq) OR scraped_from:(blogs)")

\* two labels joined
C11_Witness ==
    /\ fn = "create_filter_str"
    /\ arg = <<"faq", "blogs">>
    /\ ret = "scraped_from:(faq) OR scraped_from:(blogs)"

\* the spaces of a text
Spaces(text) == {i \in 1..Len(text) : text[i] = " "}

\* C12: the search method is TENSOR exactly when the text holds a space
\* (split(" ") gives one token more than there are spaces), LEXICAL otherwise:
\* "a" and "" are LEXICAL, "a a" is TENSOR.
C12_TensorIffSpace ==
    (fn = "get_search_method") =>
        /\ Len(split(arg)) = Cardinality(Spaces(arg)) + 1
        /\ (ret = TENSOR_SEARCH_MODE) <=> (Spaces(arg) # {})
        /\ (ret = LEXICAL_SEARCH_MODE) <=> (Spaces(arg) = {})
        /\ (arg = <<"a">>) => (ret = LEXICAL_SEARCH_MODE)
        /\ (arg = <<"a", " ", "a">>) => (ret = TENSOR_SEARCH_MODE)
        /\ (arg = <<>>) => (ret = LEXICAL_SEARCH_MODE)

\* one word after a leading space
C12_Witness ==
    /\ fn = "get_search_method"
    /\ arg = <<" ", "a">>
    /\ ret = TENSOR_SEARCH_MODE

\* C13: for a list or a mapping (the mapping without entries too) and either
\* mode the resolution gives a result and does not fail: None for a list, the
\* first excerpt of the mapping in TENSOR mode, None in LEXICAL mode.
C13_HighlightResolves ==
    (fn = "readable_highlights") =>
        /\ ret # IndexError
        /\ (arg.highlights.type = "list") => (ret = None)
        /\ (arg.highlights.type = "dict" /\ arg.search_method = LEXICAL_SEARCH_MODE) =>
              (ret = None)
        /\ (/\ arg.highlights.type = "dict"
            /\ arg.search_method = TENSOR_SEARCH_MODE
            /\ arg.highlights.values # <<>>) =>
              (ret = [kind |-> "excerpt", value |-> arg.highlights.values[1]])

\* C14 as stated: whenever page >= 0, at least one hit is displayed.
C14_PageMeansShown ==
    (page >= 0) => (shown # <<>>)

\* C14 amended: whenever page >= 0 the stored result set has at least one hit,
\* and a displayed pagination row for a page that starts before the last hit
\* comes with at least one displayed hit; a page past the last hit is empty.
C14_PageMeansStored ==
    /\ (page >= 0) => (results.hits # <<>>)
    /\ (navShown /\ page * PageSize < Len(results.hits)) => (shown # <<>>)
    /\ (navShown /\ page * PageSize >= Len(results.hits)) => (shown = <<>>)

\* Next moved to a page past the last hit: the page number with no hit under it
C14_Witness ==
    /\ trigger = "next"
    /\ page = 1
    /\ navShown
    /\ Len(results.hits) = 5
    /\ shown = <<>>

\* C15: "No results" is displayed exactly when the stored result set is an
\* installed one without hits; with the empty value of the session start
\* neither rows nor "No results" are displayed; in both cases page is -1 and
\* no pagination row is displayed.
C15_NoResultsIffEmptyInstall ==
    /\ noResults <=> (results.present /\ results.hits = <<>>)
    /\ (results = EmptyDict) => (shown = <<>> /\ ~noResults)
    /\ (results.hits = <<>>) => (page = -1 /\ ~navShown)

\* C16: page >= 0 exactly when the stored result set has at least one hit,
\* and page = -1 exactly when it is the empty value or has no hits.
C16_PageIffHits ==
    /\ (page >= 0) <=> (results.hits # <<>>)
    /\ (page = -1) <=> (results = EmptyDict \/ results.hits = <<>>)

\* a search that failed on a deleted index left page 1 of the stored hits
C16_Witness ==
    /\ raised = "IndexNotFoundError"
    /\ page = 1
    /\ results.hits # <<>>

\* C17: a pass that did not search (a text edit, Prev, Next) resolves the
\* highlights of the stored results in the mode they were retrieved with, as
\* the pass before it did: a row displayed by both passes shows the same
\* highlight.
C17_ModeKept ==
    [][(trigger' \in {"none", "prev", "next"} /\ results' = results) =>
          \A i \in 1..Len(shown) : \A j \in 1..Len(shown') :
              (shown[i].row = shown'[j].row) =>
                  (shown[i].readable_highlights = shown'[j].readable_highlights)]_vars

\* C18: Search pressed with an empty text makes no remote call, leaves results
\* and page as they were and displays the rows of the same page; a pass that
\* Search did not start (and that no reset_state callback ran before) leaves
\* results as it was.
C18_EmptySearchChangesNothing ==
    [][/\ (trigger' = "search" /\ search_text' = <<>>) =>
            /\ calls' = <<>>
            /\ raised' = ""
            /\ results' = results
            /\ page' = page
            /\ ShownIsPage'
       /\ (trigger' \in {"none", "create", "delete", "prev", "next"}) =>
            (results' = results)]_vars

\* Search pressed with an empty text while page 1 of a result set is displayed
C18_Witness ==
    /\ trigger = "search"
    /\ search_text = <<>>
    /\ calls = <<>>
    /\ page = 1
    /\ shown # <<>>

\* C19: Create Index and Delete Index, succeeding or refused, leave results
\* and page as they were and display the rows of the page; with the index
\* gone, Prev and Next still move over the stored results and display them.
C19_IndexActionsKeepResults ==
    [][/\ (trigger' \in {"create", "delete"}) =>
            /\ results' = results
            /\ page' = page
            /\ raised' = ""
            /\ ShownIsPage'
       /\ (~indexExists' /\ page >= 0 /\ trigger' \in {"prev", "next"}) =>
            /\ results' = results
            /\ raised' = ""
            /\ navShown'
            /\ ShownIsPage'
            /\ (trigger' = "prev") => (page' = IF page > 0 THEN page - 1 ELSE page)
            /\ (trigger' = "next") => (page' = IF page < MaxPage THEN page + 1 ELSE page)]_vars

\* Next pressed after the index was deleted shows the second page
C19_Witness ==
    /\ ~indexExists
    /\ trigger = "next"
    /\ prePage = 0
    /\ page = 1
    /\ shown # <<>>

\* the rows render_result_rows displays of the stored result set on page p
RowsShownOn(p) ==
    LET out == render_rows(results.hits, p, get_search_method(search_text),
                           Len(results.hits))
    IN  {out.shown[j].row : j \in 1..Len(out.shown)}

\* C20: of a stored result set of 1 to 30 hits, hit i (from 0) is displayed on
\* page i div 10 and on no other page of 0..2, and n Next passes after the
\* install (n <= 2) display exactly the hits of page n.
C20_EveryHitOnOnePage ==
    (results.hits # <<>>) =>
        /\ Len(results.hits) <= SearchLimit
        /\ \A i \in 0..(Len(results.hits) - 1) :
              {p \in 0..MaxPage : i \in RowsShownOn(p)} = {i \div PageSize}
        /\ (nexts \in 0..MaxPage) =>
              /\ page = nexts
              /\ {shown[j].row : j \in 1..Len(shown)} =
                     {i \in 0..(Len(results.hits) - 1) : i \div PageSize = nexts}

\* the last ten of 30 hits, two Next passes after the install
C20_Witness ==
    /\ Len(results.hits) = SearchLimit
    /\ nexts = MaxPage
    /\ Len(shown) = PageSize
    /\ shown[PageSize].row = SearchLimit - 1
====
